---- MODULE Spec2Model ----
(***************************************************************************)
(* cratebot (src/main.rs): the hourly cycle                                *)
(*   count -> Api::crates from the resume page -> Db::sync ->              *)
(*   Config::from_env -> Db::crates + choose -> Api::get_crate ->          *)
(*   Client::tweet -> Db::update                                           *)
(* over the persisted table crates(name, visited, date) and a remote       *)
(* registry listing that is read one page of PAGE_SIZE items at a time.    *)
(* Crate names are modelled as positive integers, timestamps as the number *)
(* of the hour (cycle) in which Utc::now() is read.                        *)
(***************************************************************************)
EXTENDS Integers, Sequences, FiniteSets, TLC

\* const PAGE_SIZE: u64 = 100
PAGE_SIZE == 100

\* Bounds of the model.
MaxSmall    == 2   \* small initial registries hold 0..MaxSmall crates
MaxPublish  == 1   \* crates published on the registry while the bot runs
MaxCycles   == 3   \* hours that elapse (cycles started)
MaxRestarts == 1   \* restarts of the process after it exited
MaxPartial  == 1   \* INSERTs already executed when a failing sync batch stops
MaxNames    == 3   \* names given to the store's operations called on their own
MaxOps      == 3   \* operations of the store called on their own

VARIABLES
  registry,   \* remote listing: sequence of crate names, in listing order
  pubs,       \* crates published since Init
  env,        \* TRUE iff the four credentials are present in the environment
  db,         \* table crates: sequence of rows in rowid order
  pc,         \* position of the process in run()
  page,       \* Api::crates: local `page`
  crates,     \* Api::crates: local `crates`, then the argument of Db::sync
  chosen,     \* the name drawn from Db::crates, then FullCrate.name
  now,        \* hours elapsed: the value Utc::now() yields in this cycle
  restarts,   \* restarts of the process so far
  failedAt,   \* the step whose error ended the process ("none" while running)
  requests,   \* history: response sizes of the page requests of this fetch
  startPage,  \* history: starting_page of this fetch
  regAtFetch, \* history: the registry when this fetch began
  synced,     \* history: the names given to the last successful sync
  dbAtCycle,  \* history: the table when this cycle began
  tweets,     \* history: posts accepted by the posting client, [name, hour]
  marked      \* history: names for which Db::update has succeeded

vars == <<registry, pubs, env, db, pc, page, crates, chosen, now, restarts,
          failedAt, requests, startPage, regAtFetch, synced, dbAtCycle,
          tweets, marked>>

remote  == <<registry, pubs>>
history == <<requests, startPage, regAtFetch, synced, dbAtCycle, tweets, marked>>

----------------------------------------------------------------------------
\* Helpers on sequences.

Range(s) == {s[i] : i \in 1..Len(s)}

Min(a, b) == IF a <= b THEN a ELSE b

Max(a, b) == IF a >= b THEN a ELSE b

Iota(n) == [i \in 1..n |-> i]

----------------------------------------------------------------------------
\* The registry's paginated listing (crates_io_api: page numbers start at 1).

\* self.client.crates(query) with page_size PAGE_SIZE and page p
ListPage(reg, p) ==
  LET first == (p - 1) * PAGE_SIZE + 1
      last  == Min(p * PAGE_SIZE, Len(reg))
  IN  IF first > last THEN <<>> ELSE SubSeq(reg, first, last)

----------------------------------------------------------------------------
\* The store.

Row(n, v, d) == [name |-> n, visited |-> v, date |-> d]

DbNames(t) == {t[i].name : i \in 1..Len(t)}

\* SELECT COUNT(*) FROM crates
DbCount(t) == Len(t)

\* mutant of ResumePage: pages counted from 0
ResumePageZeroBased(t) == DbCount(t) \div PAGE_SIZE

\* mutant of ResumePage: the quotient is rounded up before the + 1
ResumePageCeil(t) == (DbCount(t) + PAGE_SIZE - 1) \div PAGE_SIZE + 1

\* (db.count("crates")? / PAGE_SIZE as i64 + 1).try_into()?
ResumePage(t) == DbCount(t) \div PAGE_SIZE + 1

\* SELECT * FROM crates WHERE visited = 0, in rowid order
UnvisitedRows(t) == SelectSeq(t, LAMBDA r : r.visited = 0)

\* mutant of DbCrates: the query lacks WHERE visited = 0
DbCratesNoFilter(t) == IF t = <<>> THEN <<>> ELSE <<t[1].name>>

\* Db::crates: `if let State::Row = statement.next()?` reads one row only
DbCrates(t) ==
  LET rows == UnvisitedRows(t)
  IN  IF rows = <<>> THEN <<>> ELSE <<rows[1].name>>

\* mutant of DbUpdate: the UPDATE lacks its WHERE clause
DbUpdateAll(t, n, d) == [i \in 1..Len(t) |-> Row(t[i].name, 1, d)]

\* Db::update: UPDATE crates SET visited = 1, date = now WHERE name = n
DbUpdate(t, n, d) ==
  [i \in 1..Len(t) |-> IF t[i].name = n THEN Row(n, 1, d) ELSE t[i]]

\* Db::update, the value returned: Ok(..) whenever conn.execute returns Ok,
\* whatever the number of rows the UPDATE changed
DbUpdateResult(t, n) == "ok"

\* mutant of SyncInserts: the existence check is skipped
SyncInsertsNoCheck(t, names) == names

\* Db::sync, the loop: one INSERT per input name that has no row yet; every
\* existence check runs before the batch is executed
SyncInserts(t, names) ==
  LET known == DbNames(t)
  IN  SelectSeq(names, LAMBDA n : n \notin known)

\* the rows the first k INSERTs of the batch add
InsertRows(t, ins, k, d) == t \o [i \in 1..k |-> Row(ins[i], 0, d)]

\* mutant of DbSync: an upsert that rewrites the rows of names already present
DbSyncReplace(t, names, d) ==
  LET ins == SyncInserts(t, names)
      old == [i \in 1..Len(t) |->
                IF t[i].name \in Range(names) THEN Row(t[i].name, 0, d) ELSE t[i]]
  IN  InsertRows(old, ins, Len(ins), d)

\* mutant of DbSync: the rows of names already present get a new date
DbSyncRestamp(t, names, d) ==
  LET ins == SyncInserts(t, names)
      old == [i \in 1..Len(t) |->
                IF t[i].name \in Range(names)
                  THEN Row(t[i].name, t[i].visited, d) ELSE t[i]]
  IN  InsertRows(old, ins, Len(ins), d)

\* mutant of DbSync: the rows of names missing from the input are deleted
DbSyncMirror(t, names, d) ==
  LET ins  == SyncInserts(t, names)
      kept == SelectSeq(t, LAMBDA r : r.name \in Range(names))
  IN  InsertRows(kept, ins, Len(ins), d)

\* Db::sync
DbSync(t, names, d) ==
  LET ins == SyncInserts(t, names)
  IN  InsertRows(t, ins, Len(ins), d)

----------------------------------------------------------------------------
InitSizes ==
  (0..MaxSmall) \cup {PAGE_SIZE, 2 * PAGE_SIZE + PAGE_SIZE \div 2}

Init ==
  /\ \E n \in InitSizes : registry = Iota(n)
  /\ pubs = 0
  /\ env \in BOOLEAN
  /\ db = <<>>
  /\ pc = "init"
  /\ page = 1
  /\ crates = <<>>
  /\ chosen = 0
  /\ now = 0
  /\ restarts = 0
  /\ failedAt = "none"
  /\ requests = <<>>
  /\ startPage = 1
  /\ regAtFetch = <<>>
  /\ synced = <<>>
  /\ dbAtCycle = <<>>
  /\ tweets = <<>>
  /\ marked = {}

\* main: `if let Err(error) = run().await { println!; process::exit(1) }`
Exit(step) ==
  /\ pc' = "exited"
  /\ failedAt' = step

\* run, before the loop: Api::new, Db::open, db.table all succeed
Startup ==
  /\ pc = "init"
  /\ pc' = "wait"
  /\ UNCHANGED <<remote, env, db, page, crates, chosen, now, restarts,
                 failedAt, history>>

\* run, before the loop: one of Api::new, Db::open, db.table returns Err
StartupFails ==
  /\ pc = "init"
  /\ Exit("startup")
  /\ UNCHANGED <<remote, env, db, page, crates, chosen, now, restarts, history>>

\* the loop: instant.elapsed() >= one hour
Elapsed ==
  /\ pc = "wait"
  /\ now < MaxCycles
  /\ now' = now + 1
  /\ pc' = "count"
  /\ dbAtCycle' = db
  /\ UNCHANGED <<remote, env, db, page, crates, chosen, restarts, failedAt,
                 requests, startPage, regAtFetch, synced, tweets, marked>>

\* db.count("crates")? and the entry of Api::crates
Count ==
  /\ pc = "count"
  /\ page' = ResumePage(db)
  /\ crates' = <<>>
  /\ requests' = <<>>
  /\ startPage' = ResumePage(db)
  /\ regAtFetch' = registry
  /\ pc' = "fetch"
  /\ UNCHANGED <<remote, env, db, chosen, now, restarts, failedAt, synced,
                 dbAtCycle, tweets, marked>>

\* mutant of FetchPage: every page is synced as soon as it arrives
FetchPageSyncing ==
  /\ pc = "fetch"
  /\ LET response == ListPage(registry, page)
     IN  /\ requests' = Append(requests, Len(response))
         /\ db' = DbSync(db, response, now)
         /\ IF response = <<>>
              THEN /\ pc' = "sync"
                   /\ UNCHANGED <<page, crates>>
              ELSE /\ crates' = crates \o response
                   /\ page' = page + 1
                   /\ pc' = "fetch"
  /\ UNCHANGED <<remote, env, chosen, now, restarts, failedAt, startPage,
                 regAtFetch, synced, dbAtCycle, tweets, marked>>

\* mutant of FetchPage: the walk stops at the first page shorter than PAGE_SIZE
FetchPageShortStop ==
  /\ pc = "fetch"
  /\ LET response == ListPage(registry, page)
     IN  /\ requests' = Append(requests, Len(response))
         /\ crates' = crates \o response
         /\ IF Len(response) < PAGE_SIZE
              THEN pc' = "sync" /\ UNCHANGED page
              ELSE pc' = "fetch" /\ page' = page + 1
  /\ UNCHANGED <<remote, env, db, chosen, now, restarts, failedAt, startPage,
                 regAtFetch, synced, dbAtCycle, tweets, marked>>

\* Api::crates, one iteration of the loop with a successful request
FetchPage ==
  /\ pc = "fetch"
  /\ LET response == ListPage(registry, page)
     IN  /\ requests' = Append(requests, Len(response))
         /\ IF response = <<>>
              THEN /\ pc' = "sync"
                   /\ UNCHANGED <<page, crates>>
              ELSE /\ crates' = crates \o response
                   /\ page' = page + 1
                   /\ pc' = "fetch"
  /\ UNCHANGED <<remote, env, db, chosen, now, restarts, failedAt, startPage,
                 regAtFetch, synced, dbAtCycle, tweets, marked>>

\* db.sync(..)? returning Ok
Sync ==
  /\ pc = "sync"
  /\ db' = DbSync(db, crates, now)
  /\ synced' = crates
  /\ pc' = "config"
  /\ UNCHANGED <<remote, env, page, crates, chosen, now, restarts, failedAt,
                 requests, startPage, regAtFetch, dbAtCycle, tweets, marked>>

\* db.sync(..)? returning Err: a prepare fails (nothing executed) or the batch
\* of INSERTs stops at a failing statement, the earlier ones being committed
SyncFails ==
  /\ pc = "sync"
  /\ LET ins == SyncInserts(db, crates)
     IN  \E k \in 0..Max(0, Min(MaxPartial, Len(ins) - 1)) :
           db' = InsertRows(db, ins, k, now)
  /\ Exit("sync")
  /\ UNCHANGED <<remote, env, page, crates, chosen, now, restarts, history>>

\* Config::from_env()? : evaluated first among the operands of db.update(..)
LoadConfig ==
  /\ pc = "config"
  /\ IF env
       THEN pc' = "select" /\ UNCHANGED failedAt
       ELSE Exit("config")
  /\ UNCHANGED <<remote, env, db, page, crates, chosen, now, restarts, history>>

\* mutant of Select: an empty pool yields the first row of the table
SelectDefault ==
  /\ pc = "select"
  /\ LET pool == IF DbCrates(db) = <<>> THEN DbCratesNoFilter(db) ELSE DbCrates(db)
     IN  IF pool = <<>>
           THEN Exit("empty") /\ UNCHANGED chosen
           ELSE /\ \E i \in 1..Len(pool) : chosen' = pool[i]
                /\ pc' = "detail"
                /\ UNCHANGED failedAt
  /\ UNCHANGED <<remote, env, db, page, crates, now, restarts, history>>

\* db.crates()?.choose(&mut rng).ok_or_else(..)?
Select ==
  /\ pc = "select"
  /\ LET pool == DbCrates(db)
     IN  IF pool = <<>>
           THEN Exit("empty") /\ UNCHANGED chosen
           ELSE /\ \E i \in 1..Len(pool) : chosen' = pool[i]
                /\ pc' = "detail"
                /\ UNCHANGED failedAt
  /\ UNCHANGED <<remote, env, db, page, crates, now, restarts, history>>

\* mutant of GetCrate: the record is marked visited before the announcement
GetCrateMarksFirst ==
  /\ pc = "detail"
  /\ db' = DbUpdate(db, chosen, now)
  /\ marked' = marked \cup {chosen}
  /\ pc' = "publish"
  /\ UNCHANGED <<remote, env, page, crates, chosen, now, restarts, failedAt,
                 requests, startPage, regAtFetch, synced, dbAtCycle, tweets>>

\* api.get_crate(name).await? returning the FullCrate of that name
GetCrate ==
  /\ pc = "detail"
  /\ pc' = "publish"
  /\ UNCHANGED <<remote, env, db, page, crates, chosen, now, restarts,
                 failedAt, history>>

\* Client::tweet: DraftTweet::send succeeds, Ok(full_crate)
Tweet ==
  /\ pc = "publish"
  /\ tweets' = Append(tweets, [name |-> chosen, hour |-> now])
  /\ pc' = "mark"
  /\ UNCHANGED <<remote, env, db, page, crates, chosen, now, restarts,
                 failedAt, requests, startPage, regAtFetch, synced, dbAtCycle,
                 marked>>

\* db.update(&..name)? returning Ok, then instant = Instant::now()
Update ==
  /\ pc = "mark"
  /\ db' = DbUpdate(db, chosen, now)
  /\ marked' = marked \cup {chosen}
  /\ pc' = "wait"
  /\ UNCHANGED <<remote, env, page, crates, chosen, now, restarts, failedAt,
                 requests, startPage, regAtFetch, synced, dbAtCycle, tweets>>

\* mutant of CycleError: a failed page request hands the pages fetched so far
\* to Db::sync
CycleErrorPartialSync ==
  /\ pc \in {"count", "fetch", "select", "detail", "publish", "mark"}
  /\ Exit(pc)
  /\ requests' = IF pc = "fetch" THEN Append(requests, -1) ELSE requests
  /\ db' = IF pc = "fetch" THEN DbSync(db, crates, now) ELSE db
  /\ UNCHANGED <<remote, env, page, crates, chosen, now, restarts, startPage,
                 regAtFetch, synced, dbAtCycle, tweets, marked>>

\* an operation of the cycle returns Err and `?` propagates it out of run():
\* db.count, a page request, db.crates, get_crate, the post, db.update.
\* A failed page request is logged in requests as -1.
CycleError ==
  /\ pc \in {"count", "fetch", "select", "detail", "publish", "mark"}
  /\ Exit(pc)
  /\ requests' = IF pc = "fetch" THEN Append(requests, -1) ELSE requests
  /\ UNCHANGED <<remote, env, db, page, crates, chosen, now, restarts,
                 startPage, regAtFetch, synced, dbAtCycle, tweets, marked>>

\* the environment: a crate is published and enters the listing at its head,
\* moving every listed item one position down.  The program observes the
\* registry only through page requests, so changes are placed before them.
PublishFront ==
  /\ pc = "fetch"
  /\ pubs < MaxPublish
  /\ registry' = <<Len(registry) + 1>> \o registry
  /\ pubs' = pubs + 1
  /\ UNCHANGED <<env, db, pc, page, crates, chosen, now, restarts, failedAt,
                 history>>

\* the environment: a crate is published and enters the listing at its end
PublishBack ==
  /\ pc = "fetch"
  /\ pubs < MaxPublish
  /\ registry' = Append(registry, Len(registry) + 1)
  /\ pubs' = pubs + 1
  /\ UNCHANGED <<env, db, pc, page, crates, chosen, now, restarts, failedAt,
                 history>>

\* the environment: the exited process is started again on the same db.sqlite
Restart ==
  /\ pc = "exited"
  /\ restarts < MaxRestarts
  /\ restarts' = restarts + 1
  /\ pc' = "init"
  /\ failedAt' = "none"
  /\ env' \in BOOLEAN
  /\ page' = 1
  /\ crates' = <<>>
  /\ chosen' = 0
  /\ UNCHANGED <<remote, db, now, history>>

Next ==
  \/ Startup
  \/ StartupFails
  \/ Elapsed
  \/ Count
  \/ FetchPage
  \/ Sync
  \/ SyncFails
  \/ LoadConfig
  \/ Select
  \/ GetCrate
  \/ Tweet
  \/ Update
  \/ CycleError
  \/ PublishFront
  \/ PublishBack
  \/ Restart

Spec == Init /\ [][Next]_vars

----------------------------------------------------------------------------
\* The operations of Db called on their own, with any name and any input.

\* the sequences of at most two names Db::sync is given
StoreInputs ==
  {<<>>} \cup {<<a>> : a \in 1..MaxNames}
         \cup {<<a, b>> : a \in 1..MaxNames, b \in 1..MaxNames}

\* Db::open on a new file, Db::table
InitStore ==
  /\ registry = <<>>
  /\ pubs = 0
  /\ env = TRUE
  /\ db = <<>>
  /\ pc = "opened"
  /\ page = 1
  /\ crates = <<>>
  /\ chosen = 0
  /\ now = 0
  /\ restarts = 0
  /\ failedAt = "none"
  /\ requests = <<>>
  /\ startPage = 1
  /\ regAtFetch = <<>>
  /\ synced = <<>>
  /\ dbAtCycle = <<>>
  /\ tweets = <<>>
  /\ marked = {}

\* Db::sync(names) returning Ok; dbAtCycle keeps the table before the call
StoreSync ==
  /\ now < MaxOps
  /\ \E names \in StoreInputs :
       /\ db' = DbSync(db, names, now + 1)
       /\ synced' = names
       /\ crates' = names
  /\ dbAtCycle' = db
  /\ now' = now + 1
  /\ pc' = "synced"
  /\ failedAt' = "none"
  /\ UNCHANGED <<remote, env, page, chosen, restarts, requests, startPage,
                 regAtFetch, tweets, marked>>

\* Db::update(name) with conn.execute returning Ok; failedAt is "none" when
\* the call returns Ok
StoreUpdate ==
  /\ now < MaxOps
  /\ \E n \in 1..MaxNames :
       /\ db' = DbUpdate(db, n, now + 1)
       /\ chosen' = n
       /\ marked' = marked \cup {n}
       /\ failedAt' = IF DbUpdateResult(db, n) = "ok" THEN "none" ELSE "mark"
  /\ dbAtCycle' = db
  /\ now' = now + 1
  /\ pc' = "updated"
  /\ UNCHANGED <<remote, env, page, crates, restarts, requests, startPage,
                 regAtFetch, synced, tweets>>

NextStore ==
  \/ StoreSync
  \/ StoreUpdate

StoreSpec == InitStore /\ [][NextStore]_vars

----------------------------------------------------------------------------
\* Properties.

RowsOf(t, n) == Cardinality({i \in 1..Len(t) : t[i].name = n})

\* names that have more than one row
DupNames(t) ==
  {t[j].name : j \in {k \in 2..Len(t) : t[k].name \in DbNames(SubSeq(t, 1, k - 1))}}

UnvisitedNameSet(t) == {t[i].name : i \in {k \in 1..Len(t) : t[k].visited = 0}}

InCycleAfterFetch == pc \in {"sync", "config", "select", "detail", "publish", "mark"}

\* C1: no two rows of the table crates have the same name.
NameUnique == Cardinality(DbNames(db)) = Len(db)

\* C2: right after sync(names) returned Ok, every name of names has exactly
\* one row.
SyncCoverage ==
  pc = "config" => \A n \in Range(synced) : RowsOf(db, n) = 1

\* C3: right after sync(names) returned Ok, a second sync(names) inserts
\* nothing and leaves the table as it is; a second sync whose input overlaps
\* the first (one page of it, or all of it preceded by one unknown name) adds
\* rows for the unknown names only and leaves the existing rows as they are.
SyncIdempotent ==
  pc = "config" =>
    LET fresh == Len(registry) + 1
    IN  /\ SyncInserts(db, synced) = <<>>
        /\ DbSync(db, synced, now + 1) = db
        /\ DbSync(db, ListPage(synced, 1), now + 1) = db
        /\ DbSync(db, <<fresh>> \o synced, now + 1) = Append(db, Row(fresh, 0, now + 1))

\* C3 witness: a sync that inserted rows has just returned.
SyncIdempotentWitness ==
  pc = "config" /\ synced # <<>> /\ Len(db) > Len(dbAtCycle)

\* C4: the posting client is never asked to publish the same name twice.
NoReannounce ==
  \A i, j \in 1..Len(tweets) : i # j => tweets[i].name # tweets[j].name

\* C5: a row is visited exactly when Db::update has succeeded for its name:
\* unvisited from its creation until then, visited in every state after it.
VisitedMonotonic ==
  \A i \in 1..Len(db) : (db[i].visited = 1) <=> (db[i].name \in marked)

\* C5 witness: a name marked in an earlier hour was in the input of a later
\* sync and its row is still visited.
VisitedMonotonicWitness ==
  /\ pc = "config"
  /\ \E i \in 1..Len(db) :
       /\ db[i].visited = 1
       /\ db[i].date < now
       /\ db[i].name \in Range(synced)

UnvisitedAll == Range(DbCrates(db)) = UnvisitedNameSet(db)

\* C8: after startup has succeeded the process never terminates because of
\* an error in a cycle.
CycleErrorNotFatal == pc = "exited" => failedAt = "startup"

\* C9: when the detail fetch or the publish failed, the rows that existed at
\* the start of the cycle are unchanged and the rows added since are
\* unvisited; and every visited row was stamped in an hour in which the post
\* for its name had been accepted.
NoPartialAnnounce ==
  /\ (pc = "exited" /\ failedAt \in {"detail", "publish"}) =>
       /\ Len(db) >= Len(dbAtCycle)
       /\ SubSeq(db, 1, Len(dbAtCycle)) = dbAtCycle
       /\ \A i \in (Len(dbAtCycle) + 1)..Len(db) : db[i].visited = 0
       /\ \E i \in 1..Len(db) : db[i].name = chosen /\ db[i].visited = 0
  /\ \A i \in 1..Len(db) :
       db[i].visited = 1 =>
         \E j \in 1..Len(tweets) :
           tweets[j] = [name |-> db[i].name, hour |-> db[i].date]

\* C9 witness: a publish failed in a cycle that follows a successful one.
NoPartialAnnounceWitness ==
  pc = "exited" /\ failedAt = "publish" /\ marked # {}

\* C10 as stated: on an unchanging registry of 2.5 * PAGE_SIZE items the walk
\* from page 1 returns all items and issues exactly 3 page requests.
PaginationThreeRequests ==
  (/\ InCycleAfterFetch
   /\ startPage = 1
   /\ regAtFetch = registry
   /\ 2 * Len(registry) = 5 * PAGE_SIZE) =>
     crates = registry /\ Len(requests) = 3

\* C10 amended: on an unchanging registry of 2.5 * PAGE_SIZE items the walk
\* from page 1 returns all items in page order and issues exactly 4 page
\* requests: two full pages, the remaining half page, and a last request
\* that returns the empty page which ends the walk.
PaginationTermination ==
  (/\ InCycleAfterFetch
   /\ startPage = 1
   /\ regAtFetch = registry
   /\ 2 * Len(registry) = 5 * PAGE_SIZE) =>
     /\ crates = registry
     /\ requests = <<PAGE_SIZE, PAGE_SIZE, PAGE_SIZE \div 2, 0>>

\* C10 witness: the walk from page 1 over an unchanged registry of
\* 2.5 * PAGE_SIZE items has returned.
PaginationTerminationWitness ==
  /\ pc = "sync"
  /\ startPage = 1
  /\ regAtFetch = registry
  /\ 2 * Len(registry) = 5 * PAGE_SIZE

\* C11: Db::update(name) for a name that has no row returns an error and
\* leaves the table unchanged.
MarkMissingErrors ==
  (pc = "updated" /\ chosen \notin DbNames(dbAtCycle)) =>
    (failedAt # "none" /\ db = dbAtCycle)

\* a timestamp read from the clock (hours are counted from 1)
HasTimestamp(r) == r.date \in 1..now

\* C12 as stated: every unvisited row has no timestamp.
UnvisitedDateNull ==
  \A i \in 1..Len(db) : db[i].visited = 0 => ~HasTimestamp(db[i])

\* C12 amended: a row is stamped with the time of its insertion by sync, and
\* the only later write of a row's timestamp is the Db::update that sets its
\* visited flag; no sync changes the timestamp of an existing row.
TimestampWrites ==
  [][/\ \A i \in 1..Len(db) :
          /\ i <= Len(db')
          /\ db'[i].date # db[i].date =>
               /\ pc = "mark"
               /\ db[i].name = chosen
               /\ db[i].visited = 0
               /\ db'[i].visited = 1
     /\ \A i \in (Len(db) + 1)..Len(db') :
          /\ pc = "sync"
          /\ db'[i].visited = 0
          /\ db'[i].date = now
          /\ HasTimestamp(db'[i])]_vars

\* C12 witness: an unvisited row keeps the timestamp of its insertion while
\* another row was stamped later by Db::update.
TimestampWritesWitness ==
  \E i, j \in 1..Len(db) :
    /\ db[i].visited = 1
    /\ db[j].visited = 0
    /\ HasTimestamp(db[j])
    /\ db[i].date > db[j].date

\* C13: when the pool is empty after the sync, the selection fails: no name
\* is chosen, nothing is posted and no row is marked in that hour; and a
\* detail fetch, post or mark is only ever under way for a name that has an
\* unvisited row.
EmptyPoolError ==
  /\ (pc = "exited" /\ failedAt = "empty") =>
       /\ UnvisitedRows(db) = <<>>
       /\ \A j \in 1..Len(tweets) : tweets[j].hour < now
       /\ \A i \in 1..Len(db) : db[i].date < now
       /\ chosen \notin UnvisitedNameSet(db)
  /\ pc \in {"detail", "publish", "mark"} => chosen \in UnvisitedNameSet(db)
  /\ (pc = "select" /\ UnvisitedRows(db) = <<>>) => DbCrates(db) = <<>>

\* C13 witness: the selection failed on a table whose rows are all visited.
EmptyPoolErrorWitness ==
  pc = "exited" /\ failedAt = "empty" /\ db # <<>>

\* C14: no step removes a row or lowers the row count, a sync (successful or
\* failing) leaves every existing row as it is, and a visited row is never
\* changed again.
AppendOnly ==
  [][/\ Len(db') >= Len(db)
     /\ pc = "sync" => SubSeq(db', 1, Len(db)) = db
     /\ \A i \in 1..Len(db) :
          /\ db'[i].name = db[i].name
          /\ db[i].visited = 1 => db'[i] = db[i]]_vars

\* C14 witness: a sync added rows to a table that holds a visited row.
AppendOnlyWitness ==
  /\ pc = "config"
  /\ Len(db) > Len(dbAtCycle)
  /\ \E i \in 1..Len(dbAtCycle) : dbAtCycle[i].visited = 1

InCycleFromFetch == pc = "fetch" \/ InCycleAfterFetch

\* C15: the page a cycle starts fetching at is floor(count / 100) + 1 for the
\* row count at the start of the cycle: 3 for 250 rows, 1 for none, never
\* below 1; the first request of the walk is for that page.
ResumeOffset ==
  /\ PAGE_SIZE = 100
  /\ InCycleFromFetch =>
       /\ startPage = Len(dbAtCycle) \div 100 + 1
       /\ startPage >= 1
       /\ Len(dbAtCycle) = 250 => startPage = 3
       /\ Len(dbAtCycle) = 0 => startPage = 1
  /\ (pc = "fetch" /\ requests = <<>>) => page = startPage

\* C15 witness: a cycle that began with 250 rows has issued its first page
\* request.
ResumeOffsetWitness ==
  pc = "fetch" /\ Len(dbAtCycle) = 250 /\ Len(requests) = 1 /\ page = 4

\* C16: with a credential missing the process fails before any page request
\* is issued and before any row is inserted.
ConfigFatalAtStartup ==
  (~env /\ pc \in {"fetch", "sync", "config"}) =>
    (requests = <<>> /\ db = dbAtCycle)

\* C17: the steps of a cycle are ordered: the table is untouched while pages
\* are fetched; the sync has taken the whole catalog (the walk ended on its
\* empty page) before a name is selected; nothing is posted before the
\* selection; the post of the selected name precedes the mark; at most one
\* post is made per cycle; and when no cycle has failed, every earlier post
\* has been marked before a new cycle starts.
CycleOrder ==
  /\ pc \in {"count", "fetch"} => db = dbAtCycle
  /\ pc \in {"count", "fetch", "sync", "config", "select", "detail", "publish"} =>
       /\ \A j \in 1..Len(tweets) : tweets[j].hour < now
       /\ \A i \in 1..Len(db) : db[i].visited = 1 => db[i].date < now
  /\ pc \in {"sync", "config", "select", "detail", "publish", "mark"} =>
       /\ requests # <<>>
       /\ requests[Len(requests)] = 0
       /\ \A k \in 1..(Len(requests) - 1) : requests[k] > 0
  /\ pc \in {"config", "select", "detail", "publish", "mark"} =>
       /\ synced = crates
       /\ Range(crates) \subseteq DbNames(db)
  /\ pc \in {"detail", "publish", "mark"} => chosen \in UnvisitedNameSet(db)
  /\ pc = "mark" =>
       /\ tweets # <<>>
       /\ tweets[Len(tweets)] = [name |-> chosen, hour |-> now]
  /\ \A j, k \in 1..Len(tweets) : j # k => tweets[j].hour # tweets[k].hour
  /\ (restarts = 0 /\ pc \in {"wait", "count"}) =>
       \A j \in 1..Len(tweets) : tweets[j].name \in marked

\* C17 witness: a later cycle whose walk took several requests has posted
\* and is about to mark.
CycleOrderWitness ==
  pc = "mark" /\ now >= 2 /\ Len(requests) >= 2 /\ marked # {}

\* C18: when the listing has only grown by appending, is unchanged during
\* the walk, and the table holds exactly one row for each of its first count
\* names, the walk from the resume page followed by sync leaves the table
\* that the walk from page 1 followed by sync would leave: exactly one row
\* for every listed name.
ResumeLosesNothing ==
  LET count == Len(dbAtCycle)
  IN  (/\ pc = "config"
       /\ registry = Iota(Len(registry))
       /\ regAtFetch = registry
       /\ count <= Len(registry)
       /\ DbNames(dbAtCycle) = Range(SubSeq(registry, 1, count))
       /\ Cardinality(DbNames(dbAtCycle)) = count) =>
        /\ db = DbSync(dbAtCycle, registry, now)
        /\ DbNames(db) = Range(registry)
        /\ Len(db) = Len(registry)

\* C18 witness: a walk that started after page 1 brought names the table did
\* not hold, and the table now has one row per listed name.
ResumeLosesNothingWitness ==
  /\ pc = "config"
  /\ startPage > 1
  /\ regAtFetch = registry
  /\ registry = Iota(Len(registry))
  /\ Len(db) > Len(dbAtCycle)
  /\ Len(dbAtCycle) = startPage * PAGE_SIZE - PAGE_SIZE
  /\ Len(db) = Len(registry)

\* C19: when a page request failed, the table is as it was at the start of
\* the cycle, nothing was synced or posted in that hour, and the failed
\* request is the last request of the walk.
PageFailFast ==
  /\ (pc = "exited" /\ failedAt = "fetch") =>
       /\ db = dbAtCycle
       /\ \A j \in 1..Len(tweets) : tweets[j].hour < now
       /\ \A i \in 1..Len(db) : db[i].date < now
       /\ requests # <<>> /\ requests[Len(requests)] = -1
  /\ \A k \in 1..(Len(requests) - 1) : requests[k] # -1
  /\ pc \in {"fetch", "sync", "config", "select", "detail", "publish", "mark"} =>
       \A k \in 1..Len(requests) : requests[k] # -1

\* C19 witness: a page request failed after earlier pages had been fetched.
PageFailFastWitness ==
  pc = "exited" /\ failedAt = "fetch" /\ crates # <<>> /\ Len(requests) >= 2

\* C20: the step that marks a row marks the name that was drawn from
\* Db::crates and posted in this cycle: the rows of that name become visited,
\* every other row is unchanged, and the set of unvisited names loses exactly
\* that name.
MarkedIsSelected ==
  [][(pc = "mark" /\ pc' = "wait") =>
       /\ tweets[Len(tweets)] = [name |-> chosen, hour |-> now]
       /\ chosen \in Range(DbCrates(db))
       /\ chosen \in UnvisitedNameSet(db)
       /\ UnvisitedNameSet(db') = UnvisitedNameSet(db) \ {chosen}
       /\ Cardinality(UnvisitedNameSet(db')) = Cardinality(UnvisitedNameSet(db)) - 1
       /\ Len(db') = Len(db)
       /\ \A i \in 1..Len(db) :
            IF db[i].name = chosen
              THEN db'[i].visited = 1 /\ db'[i].name = chosen
              ELSE db'[i] = db[i]]_vars

\* C20 witness: a cycle has completed, its name is marked and other names
\* are still unvisited.
MarkedIsSelectedWitness ==
  /\ pc = "wait"
  /\ tweets # <<>>
  /\ tweets[Len(tweets)].hour = now
  /\ tweets[Len(tweets)].name \in marked
  /\ UnvisitedNameSet(db) # {}

====
